---- MODULE Spec2Model ----
(***************************************************************************)
(* Model of the recipes service (src/homework/routers.py, schemas.py,      *)
(* models.py).  Three request handlers run as cooperative tasks over ONE   *)
(* module-level SQLAlchemy AsyncSession (routers.py:9); the session is the *)
(* one the test-suite installs (test_main.py:30-37, expire_on_commit =     *)
(* False).  A task can be descheduled only at an `await`; every awaited    *)
(* session call is one atomic step on the single connection, followed by   *)
(* the synchronous code up to the next await.                              *)
(*                                                                         *)
(* Session state that the handlers rely on and that is modelled:           *)
(*   inTxn  the session has a transaction (autobegun by execute/refresh,   *)
(*          ended only by commit/rollback/the begin() block)               *)
(*   tx     the rows as the open transaction sees them (flushed, not       *)
(*          necessarily committed)                                         *)
(*   objs   the identity map: ONE Python object per primary key, shared    *)
(*          by every handler that loads that row                           *)
(* db is the committed (durable) table; the row with id i is db[i].        *)
(***************************************************************************)
EXTENDS Integers, Sequences, FiniteSets, TLC

\* ---------------------------------------------------------------- bounds
MaxRecipes == 2
MaxViews == 2

Tasks == {"A", "B", "C"}

\* ------------------------------------------------- wire values (schemas)
\* A JSON cooking_time string, by its shape: "HH:MM:SS", "HH:MM" or text
\* that is no time at all.
Hms(h, m, s) == [fmt |-> "HH:MM:SS", h |-> h, m |-> m, s |-> s]
Hm(h, m) == [fmt |-> "HH:MM", h |-> h, m |-> m, s |-> 0]
InvalidTime == [fmt |-> "text", h |-> 0, m |-> 0, s |-> 0]

Names == {"Borscht", "Omelette"}
Ingredients == "eggs, milk"
Description == "quick breakfast"

FieldNames == {"name", "cooking_time", "list_of_ingredients", "description"}

\* The request bodies a caller sends to POST /recipes/: `fields` are the keys
\* present in the JSON object (an extra "views" key may be sent too).
Body(f, n, c) ==
    [fields |-> f, name |-> n, cooking_time |-> c,
     list_of_ingredients |-> Ingredients, description |-> Description,
     views |-> 42]

Bodies ==
    { Body(FieldNames, "Borscht", Hm(0, 30)),
      Body(FieldNames, "Omelette", Hms(0, 10, 0)),
      Body(FieldNames \cup {"views"}, "Omelette", Hms(0, 10, 0)),
      Body(FieldNames, "Omelette", InvalidTime) }
    \cup { Body(FieldNames \ {x}, "Borscht", Hms(0, 30, 0)) : x \in FieldNames }

\* datetime.time as pydantic parses it: seconds are optional in the string.
NoTime == [h |-> -1, m |-> -1, s |-> -1]

ParseTimeOk(w) == w.fmt \in {"HH:MM:SS", "HH:MM"}

\* A parser that reads a two-part string as MM:SS instead of HH:MM.
ParseTimeShortAsMinSec(w) ==
    IF w.fmt = "HH:MM:SS" THEN [h |-> w.h, m |-> w.m, s |-> w.s]
    ELSE IF w.fmt = "HH:MM" THEN [h |-> 0, m |-> w.h, s |-> w.m]
    ELSE NoTime

ParseTime(w) ==
    IF w.fmt = "HH:MM:SS" THEN [h |-> w.h, m |-> w.m, s |-> w.s]
    ELSE IF w.fmt = "HH:MM" THEN [h |-> w.h, m |-> w.m, s |-> 0]
    ELSE NoTime

\* time.isoformat(), the JSON form of a datetime.time in a response.
FormatTime(t) == [fmt |-> "HH:MM:SS", h |-> t.h, m |-> t.m, s |-> t.s]

\* A schema whose description is Optional.
ValidateDescriptionOptional(body) ==
    /\ (FieldNames \ {"description"}) \subseteq body.fields
    /\ ParseTimeOk(body.cooking_time)

\* schemas.RecipesIn: all four fields required, cooking_time a time.
Validate(body) ==
    /\ FieldNames \subseteq body.fields
    /\ ParseTimeOk(body.cooking_time)

\* A schema that lets undeclared keys through to the constructor.
ModelDumpExtraAllowed(body) ==
    IF "views" \in body.fields
    THEN [name |-> body.name, cooking_time |-> ParseTime(body.cooking_time),
          list_of_ingredients |-> body.list_of_ingredients,
          description |-> body.description, views |-> body.views]
    ELSE [name |-> body.name, cooking_time |-> ParseTime(body.cooking_time),
          list_of_ingredients |-> body.list_of_ingredients,
          description |-> body.description]

\* recipe.model_dump(): the declared fields only; an extra key is dropped.
ModelDump(body) ==
    [name |-> body.name, cooking_time |-> ParseTime(body.cooking_time),
     list_of_ingredients |-> body.list_of_ingredients,
     description |-> body.description]

\* ------------------------------------------------------- rows (models.py)
ViewsDefault == 0

\* models.Recipes(**fields): the column values of a new row; views takes the
\* column default at INSERT unless the constructor was given one.
NewRow(f) ==
    [name |-> f.name, cooking_time |-> f.cooking_time,
     list_of_ingredients |-> f.list_of_ingredients,
     description |-> f.description,
     views |-> IF "views" \in DOMAIN f THEN f.views ELSE ViewsDefault]

NoRow ==
    [name |-> "", cooking_time |-> NoTime, list_of_ingredients |-> "",
     description |-> "", views |-> 0]

\* schemas.RecipesOut built from an ORM object (from_attributes).
RecipesOut(id, row) ==
    [id |-> id, name |-> row.name, cooking_time |-> FormatTime(row.cooking_time),
     list_of_ingredients |-> row.list_of_ingredients,
     description |-> row.description, views |-> row.views]

VARIABLES db, session, pc, local, last, supplied, fetched

vars == <<db, session, pc, local, last, supplied, fetched>>

Ids(table) == 1 .. Len(table)

\* ----------------------------------------------------- the session (ORM)
Expired == [loaded |-> FALSE, dirty |-> FALSE, row |-> NoRow]

Loaded(row) == [loaded |-> TRUE, dirty |-> FALSE, row |-> row]

\* The first SQL of a session without a transaction begins one.
Autobegin(s) == [s EXCEPT !.inTxn = TRUE]

\* flush: UPDATE every dirty object's row inside the transaction.
Flush(s) ==
    [s EXCEPT
       !.tx = [i \in Ids(s.tx) |->
                 IF s.objs[i].dirty THEN s.objs[i].row ELSE s.tx[i]],
       !.objs = [i \in Ids(s.objs) |-> [s.objs[i] EXCEPT !.dirty = FALSE]]]

\* Row processing of a SELECT: an expired (or not yet loaded) object takes the
\* row's values; a loaded one is kept as it is in memory.
Populate(s, ids) ==
    [s EXCEPT
       !.objs = [i \in Ids(s.objs) |->
                   IF i \in ids /\ ~s.objs[i].loaded
                   THEN Loaded(s.tx[i]) ELSE s.objs[i]]]

\* session.execute(select(...)): autobegin, autoflush, then the rows `ids`.
Execute(s, ids) == Populate(Flush(Autobegin(s)), ids)

\* A lookup that falls back to the first row when the id matches none.
SelectFirstIfMissing(s, recipe_id) ==
    IF recipe_id \in Ids(s.tx) THEN recipe_id
    ELSE IF Len(s.tx) > 0 THEN 1 ELSE 0

\* WHERE Recipes.id == recipe_id, scalar_one_or_none(): 0 stands for None.
SelectById(s, recipe_id) == IF recipe_id \in Ids(s.tx) THEN recipe_id ELSE 0

\* session.commit(): flush, COMMIT, the transaction is over; objects stay
\* loaded (expire_on_commit = False).
CommitSession(s) == [Flush(Autobegin(s)) EXCEPT !.inTxn = FALSE]

\* session.rollback(): the transaction's writes are gone and every object of
\* the session is expired, pending changes included.
RollbackSession(s, d) ==
    [inTxn |-> FALSE, tx |-> d, objs |-> [i \in Ids(d) |-> Expired]]

\* session.refresh(obj): expire obj (its unflushed changes are dropped), then
\* reload it with a SELECT (which autobegins).
Refresh(s, id) ==
    Execute([s EXCEPT !.objs[id] = Expired], {id})

\* ORDER BY views DESC, cooking_time ASC.
TimeKey(t) == t.h * 3600 + t.m * 60 + t.s

\* ORDER BY views DESC alone.
OrderedByViewsOnly(r1, r2) == r1.views >= r2.views

OrderedBefore(r1, r2) ==
    \/ r1.views > r2.views
    \/ r1.views = r2.views /\ TimeKey(r1.cooking_time) <= TimeKey(r2.cooking_time)

\* The orders in which the database may return the rows of `table`.
OrderedSelect(table) ==
    { p \in [Ids(table) -> Ids(table)] :
        /\ \A i, j \in Ids(table) : i # j => p[i] # p[j]
        /\ \A i \in Ids(table) : i + 1 \in Ids(table) =>
               OrderedBefore(table[p[i]], table[p[i + 1]]) }

\* ------------------------------------------------------------ responses
NoWire == [fields |-> {}, name |-> "", cooking_time |-> InvalidTime,
           list_of_ingredients |-> "", description |-> "", views |-> 0]

Response(t, op, id, wire, status, detail, body) ==
    [task |-> t, op |-> op, id |-> id, wire |-> wire, status |-> status,
     detail |-> detail, body |-> body]

\* What a fetch-by-id handler holds across its awaits: the recipe it found
\* (0: none), and for the record the views it read before `+= 1`, the stored
\* views when it started, how its commit went and the status it returned.
NoLocal == [id |-> 0, read |-> 0, pre |-> 0, commit |-> "none", status |-> 0]

\* The fields a create request supplied, as sent.
Supplied(body) ==
    [name |-> body.name, cooking_time |-> body.cooking_time,
     list_of_ingredients |-> body.list_of_ingredients,
     description |-> body.description]

Init ==
    /\ db = <<>>
    /\ session = [inTxn |-> FALSE, tx |-> <<>>, objs |-> <<>>]
    /\ pc = [t \in Tasks |-> "idle"]
    /\ local = [t \in Tasks |-> NoLocal]
    /\ last = Response("A", "none", 0, NoWire, 0, "", <<>>)
    /\ supplied = <<>>
    /\ fetched = <<>>

\* ------------------------------------------------------------- handlers
\* `return recipe` / `return rows`: the response model reads the attributes of
\* each object.  Reading an expired object would need SQL outside any awaited
\* session call, which the async session refuses: the request ends in a 500.
Serialize(t, op, id, wire, s, order) ==
    IF \A i \in 1 .. Len(order) : s.objs[order[i]].loaded
    THEN Response(t, op, id, wire, 200, "",
                  [i \in 1 .. Len(order) |->
                      RecipesOut(order[i], s.objs[order[i]].row)])
    ELSE Response(t, op, id, wire, 500, "Internal Server Error", <<>>)

\* recipe.views = 1 in place of += 1.
SetViewsToOne(s, id) ==
    [s EXCEPT !.objs[id] = [@ EXCEPT !.row.views = 1, !.dirty = TRUE]]

\* views += 1 on every loaded object instead of the one fetched.
IncrementEveryRecipe(s, id) ==
    [s EXCEPT !.objs = [i \in Ids(s.objs) |->
                          IF s.objs[i].loaded
                          THEN [s.objs[i] EXCEPT !.row.views = @ + 1,
                                                 !.dirty = TRUE]
                          ELSE s.objs[i]]]

\* recipe.views += 2.
IncrementViewsTwice(s, id) ==
    [s EXCEPT !.objs[id] = [@ EXCEPT !.row.views = @ + 2, !.dirty = TRUE]]

\* recipe.views += 1 on the session's object for that row.
IncrementViews(s, id) ==
    [s EXCEPT !.objs[id] = [@ EXCEPT !.row.views = @ + 1, !.dirty = TRUE]]

\* GET /recipes/ (routers.py:26-33).
ListRecipes(t) ==
    /\ pc[t] = "idle"
    /\ LET s1 == Execute(session, Ids(session.tx))
       IN  /\ session' = s1
           /\ \E order \in OrderedSelect(s1.tx) :
                 last' = Serialize(t, "list", 0, NoWire, s1, order)
    /\ local' = [local EXCEPT ![t] = NoLocal]
    /\ UNCHANGED <<db, pc, supplied, fetched>>

\* GET /recipes/{recipe_id}, up to the first commit (routers.py:37-46):
\* the lookup, the 404, the increment.
GetRecipe(t, recipe_id) ==
    /\ pc[t] = "idle"
    /\ LET found == SelectById(Autobegin(session), recipe_id)
           s1 == Execute(session, {found} \ {0})
       IN  IF found = 0
           THEN /\ session' = s1
                /\ last' = Response(t, "get", recipe_id, NoWire, 404,
                                    "Recipe not found", <<>>)
                /\ local' = [local EXCEPT ![t] = [NoLocal EXCEPT !.status = 404]]
                /\ UNCHANGED pc
           ELSE /\ s1.objs[found].row.views < MaxViews
                /\ fetched[found] < MaxViews
                /\ session' = IncrementViews(s1, found)
                /\ pc' = [pc EXCEPT ![t] = "commit"]
                /\ local' = [local EXCEPT ![t] =
                               [NoLocal EXCEPT !.id = found,
                                               !.read = s1.objs[found].row.views,
                                               !.pre = db[found].views]]
                /\ UNCHANGED last
    /\ UNCHANGED <<db, supplied, fetched>>

\* await session.commit() (routers.py:48-49); it may raise.
GetCommit(t) ==
    /\ pc[t] = "commit"
    /\ \E raised \in BOOLEAN :
          IF raised
          THEN /\ pc' = [pc EXCEPT ![t] = "rollback"]
               /\ local' = [local EXCEPT ![t].commit = "failed"]
               /\ UNCHANGED <<db, session>>
          ELSE /\ session' = CommitSession(session)
               /\ db' = session'.tx
               /\ pc' = [pc EXCEPT ![t] = "refresh"]
               /\ local' = [local EXCEPT ![t].commit = "ok"]
    /\ UNCHANGED <<last, supplied, fetched>>

\* await session.refresh(recipe); return recipe (routers.py:50, 55).
GetRefresh(t) ==
    /\ pc[t] = "refresh"
    /\ LET id == local[t].id
           s1 == Refresh(session, id)
           r  == Serialize(t, "get", id, NoWire, s1, <<id>>)
       IN  /\ session' = s1
           /\ last' = r
           /\ local' = [local EXCEPT ![t].status = r.status]
           /\ fetched' = [fetched EXCEPT ![id] = @ + 1]
    /\ pc' = [pc EXCEPT ![t] = "idle"]
    /\ UNCHANGED <<db, supplied>>

\* except: await session.rollback(); print; return recipe (routers.py:51-55).
GetRollback(t) ==
    /\ pc[t] = "rollback"
    /\ LET id == local[t].id
           s1 == RollbackSession(session, db)
           r  == Serialize(t, "get", id, NoWire, s1, <<id>>)
       IN  /\ session' = s1
           /\ last' = r
           /\ local' = [local EXCEPT ![t].status = r.status]
    /\ pc' = [pc EXCEPT ![t] = "idle"]
    /\ UNCHANGED <<db, supplied, fetched>>

\* session.begin() .. commit around session.add(new_recipe): the INSERT with
\* the storage-assigned id, flushed together with whatever else is dirty.
BeginAddCommit(s, row) ==
    LET f == Flush(s)
    IN  [inTxn |-> FALSE, tx |-> Append(f.tx, row),
         objs |-> Append(f.objs, Loaded(row))]

\* POST /recipes/ (routers.py:58-63), body validation included.
AddRecipes(t, body) ==
    /\ pc[t] = "idle"
    /\ local' = [local EXCEPT ![t] = NoLocal]
    /\ UNCHANGED pc
    /\ IF ~Validate(body)
       THEN /\ last' = Response(t, "create", 0, body, 422,
                                "Unprocessable Entity", <<>>)
            /\ UNCHANGED <<db, session, supplied, fetched>>
       ELSE IF session.inTxn
       THEN \* session.begin(): "A transaction is already begun on this Session."
            /\ last' = Response(t, "create", 0, body, 500,
                                "Internal Server Error", <<>>)
            /\ UNCHANGED <<db, session, supplied, fetched>>
       ELSE /\ Len(db) < MaxRecipes
            /\ LET s1 == BeginAddCommit(session, NewRow(ModelDump(body)))
                   id == Len(s1.tx)
               IN  /\ session' = s1
                   /\ db' = s1.tx
                   /\ last' = Serialize(t, "create", id, body, s1, <<id>>)
            /\ supplied' = Append(supplied, Supplied(body))
            /\ fetched' = Append(fetched, 0)

RecipeIds == 1 .. MaxRecipes + 1

Step(t) ==
    \/ ListRecipes(t)
    \/ \E recipe_id \in RecipeIds : GetRecipe(t, recipe_id)
    \/ GetCommit(t)
    \/ GetRefresh(t)
    \/ GetRollback(t)
    \/ \E body \in Bodies : AddRecipes(t, body)

\* Requests one at a time: the client awaits each response before it sends the
\* next request, as the test client does.
Next == Step("A")

Spec == Init /\ [][Next]_vars

\* Requests of several clients interleave at the handlers' awaits.  The table
\* holds one recipe, created through POST /recipes/ before the clients start.
FirstBody == Body(FieldNames, "Omelette", Hms(0, 10, 0))

RaceInit ==
    /\ db = <<NewRow(ModelDump(FirstBody))>>
    /\ session = BeginAddCommit([inTxn |-> FALSE, tx |-> <<>>, objs |-> <<>>],
                                NewRow(ModelDump(FirstBody)))
    /\ pc = [t \in Tasks |-> "idle"]
    /\ local = [t \in Tasks |-> NoLocal]
    /\ last = Serialize("A", "create", 1, FirstBody, session, <<1>>)
    /\ supplied = <<Supplied(FirstBody)>>
    /\ fetched = <<0>>

RaceNext ==
    \E t \in Tasks :
        \/ ListRecipes(t)
        \/ \E recipe_id \in RecipeIds : GetRecipe(t, recipe_id)
        \/ GetCommit(t)
        \/ GetRefresh(t)
        \/ GetRollback(t)

RaceSpec == RaceInit /\ [][RaceNext]_vars

\* ================================================================ claims
\* The response `last` is the one just sent when its task is idle again.
JustReturned(op) == last.op = op /\ pc[last.task] = "idle"

\* The time of day a returned cooking_time string denotes, in seconds.
WireKey(w) == w.h * 3600 + w.m * 60 + w.s

\* C1: with one request at a time, every fetch of a stored recipe whose commit
\* succeeds raises the stored views by exactly 1, so after N such fetches the
\* stored views is the value before them (0, at creation) plus N; the k-th
\* response carries that value plus k, which is also the stored views found
\* by that fetch plus 1.
C1_SequentialFetchesCount ==
    /\ pc["A"] = "idle" => \A i \in Ids(db) : db[i].views = fetched[i]
    /\ (JustReturned("get") /\ local[last.task].commit = "ok") =>
          /\ last.status = 200
          /\ last.body[1].id = last.id
          /\ last.body[1].views = fetched[last.id]
          /\ last.body[1].views = local[last.task].pre + 1
          /\ db[last.id].views = local[last.task].pre + 1

\* The second fetch in a row of the same recipe has answered: N = k = 2.
C1_Witness ==
    /\ JustReturned("get")
    /\ local[last.task].commit = "ok"
    /\ local[last.task].pre = 1
    /\ last.body[1].views = 2
    /\ fetched[last.id] = 2

\* C2: a list response holds every stored recipe exactly once, with the
\* stored values, ordered by views descending and by cooking_time ascending
\* among equal views; it is empty when nothing is stored.
C2_ListOrdered ==
    JustReturned("list") =>
        /\ last.status = 200
        /\ Len(last.body) = Len(db)
        /\ \A i \in Ids(db) : \E k \in 1 .. Len(last.body) :
               last.body[k] = RecipesOut(i, db[i])
        /\ \A k \in 1 .. Len(last.body) - 1 :
               \/ last.body[k].views > last.body[k + 1].views
               \/ /\ last.body[k].views = last.body[k + 1].views
                  /\ WireKey(last.body[k].cooking_time)
                        <= WireKey(last.body[k + 1].cooking_time)

\* Two recipes with equal views are listed by cooking_time, against the order
\* of their ids.
C2_Witness ==
    /\ JustReturned("list")
    /\ Len(last.body) = 2
    /\ last.body[1].id = 2
    /\ last.body[1].views = last.body[2].views
    /\ WireKey(last.body[1].cooking_time) < WireKey(last.body[2].cooking_time)

\* C3: a recipe created through POST /recipes/ has views = 0 in the response
\* and in the stored row right after creation, also when the body carries a
\* "views" key.
C3_CreatedViewsZero ==
    (JustReturned("create") /\ last.status = 200) =>
        /\ Len(last.body) = 1
        /\ last.body[1].views = 0
        /\ last.id \in Ids(db)
        /\ db[last.id].views = 0

\* A create whose body sent views = 42 has succeeded.
C3_Witness ==
    /\ JustReturned("create")
    /\ last.status = 200
    /\ "views" \in last.wire.fields
    /\ last.wire.views = 42

\* A create body as the caller sees it: all four fields sent, cooking_time
\* written HH:MM:SS.
WellFormed(body) ==
    /\ \A f \in {"name", "cooking_time", "list_of_ingredients", "description"} :
          f \in body.fields
    /\ body.cooking_time.fmt = "HH:MM:SS"

\* A create body that lacks one of the four fields or whose cooking_time is no
\* time of day.
Malformed(body) ==
    \/ \E f \in {"name", "cooking_time", "list_of_ingredients", "description"} :
          f \notin body.fields
    \/ body.cooking_time.fmt = "text"

\* C4: every create request with four valid fields succeeds (status 200, one
\* new committed row), whatever requests came before it on the session.
C4_ValidCreateSucceeds ==
    (JustReturned("create") /\ WellFormed(last.wire)) =>
        /\ last.status = 200
        /\ last.id = Len(db)

\* C5: a fetch of an id that no stored recipe has answers 404 with detail
\* "Recipe not found" and no recipe, and leaves the stored table unchanged.
C5_MissingIdNotFound ==
    [][\A recipe_id \in RecipeIds :
          (recipe_id \notin Ids(db) /\ GetRecipe("A", recipe_id)) =>
              /\ last'.op = "get"
              /\ last'.id = recipe_id
              /\ last'.status = 404
              /\ last'.detail = "Recipe not found"
              /\ last'.body = <<>>
              /\ pc'["A"] = "idle"
              /\ db' = db]_vars

\* A 404 has been answered while a recipe with views > 0 is stored.
C5_Witness ==
    /\ JustReturned("get")
    /\ last.status = 404
    /\ last.id \notin Ids(db)
    /\ Len(db) > 0
    /\ db[1].views > 0

\* C6: a fetch whose commit failed still answers 200 with the stored views
\* found by the fetch plus 1, while the stored views stays as found.
C6_FailedCommitStillAnswers ==
    (JustReturned("get") /\ local[last.task].commit = "failed") =>
        /\ last.status = 200
        /\ Len(last.body) = 1
        /\ last.body[1].views = local[last.task].pre + 1
        /\ db[last.id].views = local[last.task].pre

\* C7: the stored views of a recipe never decreases, no recipe is removed, and
\* the stored views changes only in a step (the commit) of a fetch of that
\* same recipe, by exactly 1.
C7_ViewsOnlyByOwnFetch ==
    [][/\ Len(db') >= Len(db)
       /\ \A i \in Ids(db) :
             /\ db'[i].views >= db[i].views
             /\ db'[i].views # db[i].views =>
                   /\ pc["A"] = "commit"
                   /\ pc'["A"] = "refresh"
                   /\ local["A"].id = i
                   /\ db'[i].views = db[i].views + 1]_vars

\* Recipe 1 has been fetched twice and recipe 2 never, with a list, a failed
\* fetch or a create in between or after.
C7_Witness ==
    /\ Len(db) = 2
    /\ db[1].views = 2
    /\ db[2].views = 0
    /\ last.op \in {"list", "create"} \/ last.status = 500

\* C8: a create request that lacks one of the four fields, or whose
\* cooking_time is no time of day, answers 422 with no recipe, touches neither
\* the stored table nor the session, and no stored recipe stems from it.
C8_InvalidCreateRejected ==
    [][\A body \in Bodies :
          (Malformed(body) /\ AddRecipes("A", body)) =>
              /\ last'.op = "create"
              /\ last'.status = 422
              /\ last'.body = <<>>
              /\ db' = db
              /\ session' = session
              /\ supplied' = supplied]_vars

\* A body without description has been rejected while a recipe is stored and
\* the session has no transaction (where a valid create would succeed).
C8_Witness ==
    /\ JustReturned("create")
    /\ last.status = 422
    /\ "description" \notin last.wire.fields
    /\ Len(db) = 1
    /\ ~session.inTxn

\* The recipes of a 200 response to list or fetch-by-id.
Returned == IF last.op \in {"list", "get"} /\ last.status = 200
            THEN { last.body[k] : k \in 1 .. Len(last.body) } ELSE {}

Uncommitted(i) ==
    { t \in Tasks : pc[t] \in {"commit", "rollback"} /\ local[t].id = i }

\* Two fetches of one recipe that read the same views before `+= 1` and both
\* committed without error.
SameRead(x, y) ==
    /\ x # y
    /\ local[x].id # 0
    /\ local[x].id = local[y].id
    /\ local[x].read = local[y].read
    /\ local[x].commit = "ok"
    /\ local[y].commit = "ok"

====
